---- MODULE Spec2Model ----
(***************************************************************************)
(* Model of mps_youtube/mpris.py: the MPRIS2 object Mpris2MediaPlayer (its *)
(* property table, the backend transports and the D-Bus methods), the      *)
(* socket reader threads started by bindmpv and the relay loop of          *)
(* Mpris2Controller.listenstatus.                                          *)
(*                                                                         *)
(* Python values are tagged records, so that values of different Python    *)
(* types can be compared: [bool], [int], [n, d] (a float, as a fraction in *)
(* lowest terms), [str], [chars] (a string as a sequence of characters),   *)
(* [tuple], [path] (a dbus.ObjectPath), [dict], [list], [none].            *)
(***************************************************************************)
EXTENDS Integers, Sequences, FiniteSets, TLC

VARIABLES
    properties,   \* self.properties of Mpris2MediaPlayer
    socket,       \* self.socket: None or a socket object
    fifo,         \* self.fifo: None or an open file object
    mpv,          \* self.mpv: the dialect flag
    connected,    \* the socket objects whose connection to the backend is up
    thr,          \* the bindmpv threads: position, tries, observe_full, file
    relay,        \* the relay loop of listenstatus: "running" or "exited"
    exported,     \* the interface object is registered on the bus
    last,         \* the operation performed by the latest step
    emitted,      \* the D-Bus signals emitted by the latest step, in order
    written,      \* the writes to backend transports of the latest step
    raised,       \* the exception the latest step ended with, or "none"
    ret,          \* the value returned by the latest step, or None
    applying,     \* the setproperty call each loop is inside of, if any
    notified      \* the PlaybackStatus of the latest PropertiesChanged

vars == <<properties, socket, fifo, mpv, connected, thr, relay, exported,
          last, emitted, written, raised, ret, applying, notified>>

---------------------------------------------------------------------------
(* Bounds of the model *)

\* number of bindmpv threads that run at a time: the relay starts another
\* one when a thread has ended
MaxBinds == 1

\* number of bindmpv threads that run at a time where socket binds overlap
MaxOverlap == 2

---------------------------------------------------------------------------
(* Python values *)

None == [none |-> TRUE]
PyBool(b) == [bool |-> b]
PyInt(i) == [int |-> i]
PyStr(s) == [str |-> s]
Chars(cs) == [chars |-> cs]
PyTuple(t) == [tuple |-> t]
PyList(l) == [list |-> l]

IsNone(v) == "none" \in DOMAIN v
IsBool(v) == "bool" \in DOMAIN v
IsInt(v) == "int" \in DOMAIN v
IsFloat(v) == "n" \in DOMAIN v
IsStr(v) == "str" \in DOMAIN v
IsTuple(v) == "tuple" \in DOMAIN v

Abs(x) == IF x < 0 THEN -x ELSE x

RECURSIVE GCD(_, _)
GCD(a, b) == IF b = 0 THEN a ELSE GCD(b, a % b)

\* the float n/d, in lowest terms with a positive denominator
PyFloat(n, d) ==
    LET g == GCD(Abs(n), Abs(d))
        s == IF d < 0 THEN -1 ELSE 1
    IN  [n |-> (s * n) \div g, d |-> (s * d) \div g]

\* int(n/d): Python's conversion of a float to an integer drops the fraction
Trunc(n, d) == IF n >= 0 THEN n \div d ELSE -((-n) \div d)

\* Python truthiness, as tested by "if val:"
Truthy(v) ==
    CASE IsNone(v) -> FALSE
      [] IsBool(v) -> v.bool
      [] IsInt(v) -> v.int # 0
      [] IsFloat(v) -> v.n # 0
      [] IsStr(v) -> v.str # ""
      [] IsTuple(v) -> Len(v.tuple) > 0
      [] OTHER -> TRUE

---------------------------------------------------------------------------
(* Names of the module *)

ROOT_INTERFACE == "org.mpris.MediaPlayer2"
PLAYER_INTERFACE == "org.mpris.MediaPlayer2.Player"
PROPERTIES_INTERFACE == "org.freedesktop.DBus.Properties"
IDENTITY == "mps-youtube.instance"

\* 10**6, microseconds in a second
MICRO == 1000000

\* 4 * 10**6, the least jump of Position reported by Seeked
SEEK_JUMP == 4 * MICRO

\* the tries of bindmpv
MAX_TRIES == 10

\* the characters that re.sub('[^a-zA-Z0-9]', '', trackid) keeps
Alnum ==
    {"a","b","c","d","e","f","g","h","i","j","k","l","m",
     "n","o","p","q","r","s","t","u","v","w","x","y","z",
     "A","B","C","D","E","F","G","H","I","J","K","L","M",
     "N","O","P","Q","R","S","T","U","V","W","X","Y","Z",
     "0","1","2","3","4","5","6","7","8","9"}

IsAlnum(c) == c \in Alnum

Sanitize(cs) == SelectSeq(cs, IsAlnum)

ObjectPath(prefix, cs) == [path |-> <<prefix, cs>>]

UnknownTrack == ObjectPath("/CurrentPlaylist/UnknownTrack", <<>>)

---------------------------------------------------------------------------
(* The property table *)

InitProperties ==
    (ROOT_INTERFACE :>
        [read_only |->
            ("CanQuit" :> PyBool(FALSE)) @@
            ("CanSetFullscreen" :> PyBool(FALSE)) @@
            ("CanRaise" :> PyBool(FALSE)) @@
            ("HasTrackList" :> PyBool(FALSE)) @@
            ("Identity" :> PyStr(IDENTITY)) @@
            ("SupportedUriSchemes" :> PyList(<<>>)) @@
            ("SupportedMimeTypes" :> PyList(<<>>)),
         read_write |->
            ("Fullscreen" :> PyBool(FALSE))]) @@
    (PLAYER_INTERFACE :>
        [read_only |->
            ("PlaybackStatus" :> PyStr("Stopped")) @@
            ("Metadata" :> [dict |-> ("mpris:trackid" :> UnknownTrack)]) @@
            ("Position" :> PyInt(0)) @@
            ("MinimumRate" :> PyFloat(1, 1)) @@
            ("MaximumRate" :> PyFloat(1, 1)) @@
            ("CanGoNext" :> PyBool(TRUE)) @@
            ("CanGoPrevious" :> PyBool(TRUE)) @@
            ("CanPlay" :> PyBool(TRUE)) @@
            ("CanPause" :> PyBool(TRUE)) @@
            ("CanSeek" :> PyBool(TRUE)) @@
            ("CanControl" :> PyBool(TRUE)),
         read_write |->
            ("Rate" :> PyFloat(1, 1)) @@
            ("Volume" :> PyFloat(1, 1))])

PlayerRO(props, key) == props[PLAYER_INTERFACE].read_only[key]
PlayerRW(props, key) == props[PLAYER_INTERFACE].read_write[key]

SetPlayerRO(props, key, val) ==
    [props EXCEPT ![PLAYER_INTERFACE].read_only[key] = val]

\* SetPlayerRW putting the key into the read-only partition
SetPlayerRW_Move(props, key, val) ==
    [props EXCEPT ![PLAYER_INTERFACE].read_only = (key :> val) @@ @]

SetPlayerRW(props, key, val) ==
    [props EXCEPT ![PLAYER_INTERFACE].read_write[key] = val]

\* the PropertiesChanged signal
PropertiesChanged(iface, changed, invalidated) ==
    [sig |-> "PropertiesChanged", iface |-> iface,
     changed |-> changed, invalidated |-> invalidated]

\* the Seeked signal
Seeked(position) == [sig |-> "Seeked", position |-> position]

\* what a call ends with: the table, the signals, the exception
Outcome(props, sigs, exc) == [props |-> props, sigs |-> sigs, exc |-> exc]

---------------------------------------------------------------------------
(* Mpris2MediaPlayer.setproperty *)

\* SetPause notifying also when the status stays
SetPause_Always(props, val) ==
    LET newval == IF Truthy(val) THEN PyStr("Paused") ELSE PyStr("Playing")
    IN  Outcome(SetPlayerRO(props, "PlaybackStatus", newval),
                <<PropertiesChanged(PLAYER_INTERFACE,
                      "PlaybackStatus" :> newval, <<>>)>>,
                "none")

\* the branch "pause"
SetPause(props, val) ==
    LET oldval == PlayerRO(props, "PlaybackStatus")
        newval == IF Truthy(val) THEN PyStr("Paused") ELSE PyStr("Playing")
    IN  IF newval # oldval
        THEN Outcome(SetPlayerRO(props, "PlaybackStatus", newval),
                     <<PropertiesChanged(PLAYER_INTERFACE,
                           "PlaybackStatus" :> newval, <<>>)>>,
                     "none")
        ELSE Outcome(props, <<>>, "none")

\* the branch "stop"
SetStop(props, val) ==
    LET oldval == PlayerRO(props, "PlaybackStatus")
        newval == IF Truthy(val) THEN PyStr("Stopped") ELSE PyStr("Playing")
    IN  IF newval # oldval
        THEN Outcome(SetPlayerRO(props, "PlaybackStatus", newval),
                     <<PropertiesChanged(PLAYER_INTERFACE,
                           "PlaybackStatus" :> newval,
                           <<"Metadata", "Position">>)>>,
                     "none")
        ELSE Outcome(props, <<>>, "none")

\* float(val) / 100
VolumeOf(val) ==
    CASE IsInt(val) -> PyFloat(val.int, 100)
      [] IsFloat(val) -> PyFloat(val.n, val.d * 100)
      [] IsBool(val) -> PyFloat(IF val.bool THEN 1 ELSE 0, 100)

\* the branch "volume", taken when val is not None
SetVolume(props, val) ==
    IF ~(IsInt(val) \/ IsFloat(val) \/ IsBool(val))
    THEN Outcome(props, <<>>, "TypeError")
    ELSE
    LET oldval == PlayerRW(props, "Volume")
        newval == VolumeOf(val)
    IN  IF newval # oldval
        THEN Outcome(SetPlayerRW(props, "Volume", newval),
                     <<PropertiesChanged(PLAYER_INTERFACE,
                           "Volume" :> newval, <<>>)>>,
                     "none")
        ELSE Outcome(props, <<>>, "none")

\* Int64Micro rounding to the nearest microsecond
Int64Micro_Round(val) ==
    CASE IsInt(val) -> PyInt(val.int * MICRO)
      [] IsFloat(val) ->
            LET g == GCD(MICRO, val.d)
                n == val.n * (MICRO \div g)
                d == val.d \div g
            IN  PyInt((2 * n + d) \div (2 * d))
      [] IsBool(val) -> PyInt(IF val.bool THEN MICRO ELSE 0)

\* dbus.Int64(val * 10**6)
Int64Micro(val) ==
    CASE IsInt(val) -> PyInt(val.int * MICRO)
      [] IsFloat(val) ->
            LET g == GCD(MICRO, val.d)
            IN  PyInt(Trunc(val.n * (MICRO \div g), val.d \div g))
      [] IsBool(val) -> PyInt(IF val.bool THEN MICRO ELSE 0)

\* SetTimePos notifying the Position it stores
SetTimePos_Notify(props, val) ==
    LET oldval == PlayerRO(props, "Position")
        newval == Int64Micro(val)
    IN  IF newval # oldval
        THEN Outcome(SetPlayerRO(props, "Position", newval),
                     <<PropertiesChanged(PLAYER_INTERFACE,
                           "Position" :> newval, <<>>)>>,
                     "none")
        ELSE Outcome(props, <<>>, "none")

\* the branch "time-pos", taken when val is truthy
SetTimePos(props, val) ==
    IF ~(IsInt(val) \/ IsFloat(val) \/ IsBool(val))
    THEN Outcome(props, <<>>, "TypeError")
    ELSE
    LET oldval == PlayerRO(props, "Position")
        newval == Int64Micro(val)
        stored == IF newval # oldval
                  THEN SetPlayerRO(props, "Position", newval)
                  ELSE props
    IN  IF Abs(newval.int - oldval.int) >= SEEK_JUMP
        THEN Outcome(stored, <<Seeked(newval)>>, "none")
        ELSE Outcome(stored, <<>>, "none")

\* a value that unpacks into trackid, title, length with a string trackid
\* and a number length
IsTrackTriple(val) ==
    /\ IsTuple(val)
    /\ Len(val.tuple) = 3
    /\ "chars" \in DOMAIN val.tuple[1]
    /\ IsInt(val.tuple[3]) \/ IsFloat(val.tuple[3])

\* the dict built from trackid, title, length
MetadataOf(val) ==
    LET trackid == Sanitize(val.tuple[1].chars)
        title == val.tuple[2]
        length == val.tuple[3]
    IN  [dict |->
            ("mpris:trackid" :> ObjectPath("/CurrentPlaylist/ytid/", trackid)) @@
            ("mpris:length" :> Int64Micro(length)) @@
            ("xesam:title" :> title)]

\* the branch "metadata", taken when val is truthy
SetMetadata(props, val) ==
    IF ~IsTrackTriple(val)
    THEN Outcome(props, <<>>,
                 IF IsTuple(val) /\ Len(val.tuple) # 3
                 THEN "ValueError" ELSE "TypeError")
    ELSE
    LET oldval == PlayerRO(props, "Metadata")
        newval == MetadataOf(val)
    IN  IF newval # oldval
        THEN Outcome(SetPlayerRO(props, "Metadata", newval),
                     <<PropertiesChanged(PLAYER_INTERFACE,
                           "Metadata" :> newval, <<>>)>>,
                     "none")
        ELSE Outcome(props, <<>>, "none")

setproperty(props, name, val) ==
    CASE name = "pause" -> SetPause(props, val)
      [] name = "stop" -> SetStop(props, val)
      [] name = "volume" /\ ~IsNone(val) -> SetVolume(props, val)
      [] name = "time-pos" /\ Truthy(val) -> SetTimePos(props, val)
      [] name = "metadata" /\ Truthy(val) -> SetMetadata(props, val)
      [] OTHER -> Outcome(props, <<>>, "none")

---------------------------------------------------------------------------
(* The backend transports and Mpris2MediaPlayer._sendcommand *)

Binds == 1 .. MaxBinds

\* the threads there are
Threads == 1 .. (IF MaxOverlap > MaxBinds THEN MaxOverlap ELSE MaxBinds)

\* the socket object made by the bindmpv thread t
Sock(t) == [sock |-> t]

\* the file object that open(fifopath, 'w') returns
File(path) == [file |-> path]

\* json.dumps({"command": command}).encode() + b'\n'
JsonLine(command) ==
    [format |-> "json", object |-> [command |-> command], end |-> "\n"]

\* the token a pipe gets for one atom of a command: True and False are
\* replaced by yes and no for mpv and by 1 and 0 otherwise, then str(i)
FifoToken(i, mpvflag) ==
    CASE IsBool(i) /\ i.bool -> IF mpvflag THEN PyStr("yes") ELSE PyStr("1")
      [] IsBool(i) /\ ~i.bool -> IF mpvflag THEN PyStr("no") ELSE PyStr("0")
      [] IsInt(i) -> PyStr(ToString(i.int))
      [] OTHER -> i

\* " ".join([str(i) for i in command]) + '\n'
FifoLine(command, mpvflag) ==
    [format |-> "text",
     tokens |-> [x \in DOMAIN command |-> FifoToken(command[x], mpvflag)],
     sep |-> " ", end |-> "\n"]

Write(to, h, data) == [to |-> to, h |-> h, data |-> data]

\* what _sendcommand ends with: the writes and the exception
Sent(w, exc) == [w |-> w, exc |-> exc]

\* _sendcommand(command) with self.socket = sock, self.fifo = ff and
\* self.mpv = mpvflag; send on a socket that is not connected raises
\* socket.error
SendCommand(sock, ff, mpvflag, conn, command) ==
    IF sock # None
    THEN IF sock \in conn
         THEN Sent(<<Write("socket", sock, JsonLine(command))>>, "none")
         ELSE Sent(<<>>, "socket.error")
    ELSE IF ff # None
         THEN Sent(<<Write("fifo", ff, FifoLine(command, mpvflag))>>, "none")
         ELSE Sent(<<>>, "none")

\* _sendcommand in the current state
sendcommand(command) == SendCommand(socket, fifo, mpv, connected, command)

\* two commands one after the other; the second is not sent when the first
\* raises
SendBoth(sock, ff, mpvflag, conn, c1, c2) ==
    LET s1 == SendCommand(sock, ff, mpvflag, conn, c1)
        s2 == SendCommand(sock, ff, mpvflag, conn, c2)
    IN  IF s1.exc # "none" THEN s1 ELSE Sent(s1.w \o s2.w, s2.exc)

---------------------------------------------------------------------------
(* Initial state: after Mpris2Controller.acquire() *)

IdleThread == [pc |-> "idle", tries |-> 0, observe_full |-> FALSE, file |-> None]

\* the loops that call setproperty: the relay loop and the bindmpv threads
RELAY == 0
Appliers == {RELAY} \cup Threads

\* a loop that is not inside of setproperty
IdleApply == [pc |-> "idle", name |-> "", val |-> None, oldval |-> None]

\* the status carried by the PropertiesChanged of PlaybackStatus among the
\* signals sigs, the latest one, or the one before them when there is none
NotifiedAfter(sigs, before) ==
    LET at == {x \in DOMAIN sigs :
                  /\ sigs[x].sig = "PropertiesChanged"
                  /\ "PlaybackStatus" \in DOMAIN sigs[x].changed}
    IN  IF at = {} THEN before
        ELSE sigs[CHOOSE x \in at : \A y \in at : y <= x]
                 .changed["PlaybackStatus"]

Init ==
    /\ properties = InitProperties
    /\ socket = None
    /\ fifo = None
    /\ mpv = FALSE
    /\ connected = {}
    /\ thr = [t \in Threads |-> IdleThread]
    /\ relay = "running"
    /\ exported = TRUE
    /\ last = [op |-> "acquire"]
    /\ emitted = <<>>
    /\ written = <<>>
    /\ raised = "none"
    /\ ret = None
    /\ applying = [a \in Appliers |-> IdleApply]
    /\ notified = None

---------------------------------------------------------------------------
(* Inputs of the D-Bus methods *)

Interfaces == {ROOT_INTERFACE, PLAYER_INTERFACE, PROPERTIES_INTERFACE}

PropertyNames == {"Volume", "Rate", "Fullscreen", "PlaybackStatus"}

NewValues == {PyFloat(1, 2)}

SeekOffsets == {5 * MICRO}

TrackIds == {UnknownTrack, ObjectPath("/CurrentPlaylist/ytid/", <<"a">>)}

SetPositions == {MICRO}

---------------------------------------------------------------------------
(* The D-Bus methods of Mpris2MediaPlayer, served by the main loop *)

NoSend == Sent(<<>>, "none")

\* a method call that leaves the object as it is: s is what was sent
DBusCall(op, s, retval) ==
    /\ exported
    /\ last' = op
    /\ written' = s.w
    /\ raised' = s.exc
    /\ ret' = retval
    /\ emitted' = <<>>
    /\ UNCHANGED <<properties, socket, fifo, mpv, connected, thr, relay,
                   exported, applying, notified>>

Raise == DBusCall([op |-> "Raise"], NoSend, None)

Quit == DBusCall([op |-> "Quit"], NoSend, None)

OpenUri == DBusCall([op |-> "OpenUri"], NoSend, None)

Next_ == DBusCall([op |-> "Next"], sendcommand(<<PyStr("quit")>>), None)

Previous ==
    DBusCall([op |-> "Previous"],
             sendcommand(<<PyStr("quit"), PyInt(42)>>), None)

Stop ==
    DBusCall([op |-> "Stop"],
             sendcommand(<<PyStr("quit"), PyInt(43)>>), None)

\* PauseCommand sending pause whatever the status
PauseCommand_Blind(mpvflag, status) ==
    IF mpvflag
    THEN <<PyStr("set_property"), PyStr("pause"), PyBool(TRUE)>>
    ELSE <<PyStr("pause")>>

\* the command of Pause, or <<>> when it sends none
PauseCommand(mpvflag, status) ==
    IF mpvflag
    THEN <<PyStr("set_property"), PyStr("pause"), PyBool(TRUE)>>
    ELSE IF status # PyStr("Paused") THEN <<PyStr("pause")>> ELSE <<>>

\* the command of PlayPause
PlayPauseCommand(mpvflag) ==
    IF mpvflag
    THEN <<PyStr("cycle"), PyStr("pause")>>
    ELSE <<PyStr("pause")>>

\* the command of Play, or <<>> when it sends none
PlayCommand(mpvflag, status) ==
    IF mpvflag
    THEN <<PyStr("set_property"), PyStr("pause"), PyBool(FALSE)>>
    ELSE IF status # PyStr("Playing") THEN <<PyStr("pause")>> ELSE <<>>

SendIf(command) == IF command = <<>> THEN NoSend ELSE sendcommand(command)

Pause ==
    DBusCall([op |-> "Pause"],
             SendIf(PauseCommand(mpv, PlayerRO(properties, "PlaybackStatus"))),
             None)

PlayPause ==
    DBusCall([op |-> "PlayPause"], SendIf(PlayPauseCommand(mpv)), None)

Play ==
    DBusCall([op |-> "Play"],
             SendIf(PlayCommand(mpv, PlayerRO(properties, "PlaybackStatus"))),
             None)

Seek(offset) ==
    DBusCall([op |-> "Seek", offset |-> offset],
             sendcommand(<<PyStr("seek"), PyFloat(offset, MICRO)>>), None)

\* the name offset is not bound in SetPosition: evaluating the command
\* raises NameError before anything is sent
SetPosition(track_id, position) ==
    DBusCall([op |-> "SetPosition", track_id |-> track_id,
              position |-> position],
             IF track_id = PlayerRO(properties, "Metadata").dict["mpris:trackid"]
             THEN Sent(<<>>, "NameError")
             ELSE NoSend,
             None)

\* GetAllResult returning an empty dict for an interface it does not know
GetAllResult_Empty(props, interface_name) ==
    IF interface_name \in DOMAIN props
    THEN [ret |-> [dict |-> props[interface_name].read_write @@
                            props[interface_name].read_only],
          exc |-> "none"]
    ELSE [ret |-> [dict |-> <<>>], exc |-> "none"]

\* what GetAll ends with: the returned dict and the exception
GetAllResult(props, interface_name) ==
    IF interface_name \in DOMAIN props
    THEN [ret |-> [dict |-> props[interface_name].read_write @@
                            props[interface_name].read_only],
          exc |-> "none"]
    ELSE [ret |-> None, exc |-> "UnknownInterface"]

GetAll(interface_name) ==
    LET r == GetAllResult(properties, interface_name)
    IN  DBusCall([op |-> "GetAll", interface_name |-> interface_name],
                 Sent(<<>>, r.exc), r.ret)

\* what Get ends with: GetAll(interface_name)[property_name]
GetResult(props, interface_name, property_name) ==
    LET r == GetAllResult(props, interface_name)
    IN  IF r.exc # "none" THEN r
        ELSE IF property_name \in DOMAIN r.ret.dict
             THEN [ret |-> r.ret.dict[property_name], exc |-> "none"]
             ELSE [ret |-> None, exc |-> "KeyError"]

Get(interface_name, property_name) ==
    LET r == GetResult(properties, interface_name, property_name)
    IN  DBusCall([op |-> "Get", interface_name |-> interface_name,
                  property_name |-> property_name],
                 Sent(<<>>, r.exc), r.ret)

\* what Set sends
SetSent(props, sock, ff, mpvflag, conn, iface, property_name, new_value) ==
    IF iface \in DOMAIN props
    THEN IF /\ property_name \in DOMAIN props[iface].read_write
            /\ property_name = "Volume"
         THEN LET c1 == <<PyStr("set_property"), PyStr("volume"),
                          PyFloat(new_value.n * 100, new_value.d)>>
                  c2 == <<PyStr("get_property"), PyStr("volume")>>
              IN  IF ff # None
                  THEN SendBoth(sock, ff, mpvflag, conn, c1, c2)
                  ELSE SendCommand(sock, ff, mpvflag, conn, c1)
         ELSE NoSend
    ELSE Sent(<<>>, "UnknownInterface")

\* Set storing the Volume it sends
Set_Store(interface_name, property_name, new_value) ==
    /\ exported
    /\ last' = [op |-> "Set", interface_name |-> interface_name,
                property_name |-> property_name, new_value |-> new_value]
    /\ LET s == SetSent(properties, socket, fifo, mpv, connected,
                        interface_name, property_name, new_value)
       IN  /\ written' = s.w
           /\ raised' = s.exc
    /\ properties' =
           IF interface_name = PLAYER_INTERFACE /\ property_name = "Volume"
           THEN SetPlayerRW(properties, "Volume", new_value)
           ELSE properties
    /\ ret' = None
    /\ emitted' = <<>>
    /\ UNCHANGED <<socket, fifo, mpv, connected, thr, relay, exported,
                   applying, notified>>

Set(interface_name, property_name, new_value) ==
    DBusCall([op |-> "Set", interface_name |-> interface_name,
              property_name |-> property_name, new_value |-> new_value],
             SetSent(properties, socket, fifo, mpv, connected,
                     interface_name, property_name, new_value),
             None)

---------------------------------------------------------------------------
(* Inputs of the relay and of the backend socket *)

PauseVals == {PyBool(TRUE), PyBool(FALSE)}

VolumeVals == {None, PyInt(50), PyInt(100)}

\* seconds: nothing, 0, 4, 3.9999995 and 9
TimePosVals == {None, PyInt(0), PyInt(4), PyFloat(7999999, 2000000), PyInt(9)}

MetadataVals ==
    {PyTuple(<<Chars(<<"a", "-">>), PyStr("t"), PyInt(3)>>),
     PyTuple(<<Chars(<<"a">>), PyStr("t"), PyInt(3)>>),
     PyTuple(<<Chars(<<"b", "_">>), PyStr("u"), PyFloat(5, 2)>>),
     PyTuple(<<Chars(<<"a">>), PyStr("t")>>)}

\* the (name, val) messages the player puts on the relay channel
RelayEvents ==
    ({"pause", "stop"} \X PauseVals)
    \cup ({"volume"} \X VolumeVals)
    \cup ({"time-pos"} \X TimePosVals)
    \cup ({"metadata"} \X MetadataVals)
    \cup {<<"title", PyStr("t")>>}

\* the path given with each pipe bind message, and the mpv argument bindfifo
\* gets for it
FifoBinds == {<<"mplayer-fifo", FALSE>>, <<"mpv-fifo", TRUE>>}

\* the property-change events mpv sends for the observed properties
SocketEvents ==
    ({"pause"} \X PauseVals)
    \cup ({"volume"} \X {PyFloat(50, 1)})
    \cup ({"time-pos"} \X {None, PyFloat(4, 1)})

\* the lines read from the socket that are JSON objects but no property
\* change: another event, and the reply to a command
OtherLines == {"event:playback-restart", "reply"}

\* the lines json.loads or resp.get fail on: no JSON, and JSON that is no
\* object
BadLines == {"not-json", "json-list"}

---------------------------------------------------------------------------
(* Mpris2Controller.listenstatus, the relay loop, and main *)

\* ('socket', val): a thread is started on bindmpv, the first of the
\* threads slots that is not running
StartBind(slots) ==
    /\ relay = "running"
    /\ applying[RELAY].pc = "idle"
    /\ \E t \in slots :
        /\ thr[t].pc \in {"idle", "done", "dead"}
        /\ \A u \in slots : u < t => thr[u].pc \notin {"idle", "done", "dead"}
        /\ thr' = [thr EXCEPT ![t] = [IdleThread EXCEPT !.pc = "start"]]
        /\ last' = [op |-> "recv", name |-> "socket", t |-> t]
    /\ emitted' = <<>>
    /\ written' = <<>>
    /\ raised' = "none"
    /\ ret' = None
    /\ UNCHANGED <<properties, socket, fifo, mpv, connected, relay, exported,
                   applying, notified>>

\* ('socket', val) with at most MaxBinds threads running
RecvSocket == StartBind(Binds)

\* bindfifo(fifopath, mpv): opened tells whether open(fifopath, 'w') succeeds
bindfifo(fifopath, mpvarg, opened) ==
    LET f == File(fifopath)
        s == SendCommand(socket, f, mpv, connected,
                         <<PyStr("get_property"), PyStr("volume")>>)
    IN  /\ relay = "running"
        /\ applying[RELAY].pc = "idle"
        /\ IF opened /\ s.exc = "none"
           THEN /\ fifo' = f
                /\ mpv' = mpvarg
                /\ written' = s.w
           ELSE /\ fifo' = None
                /\ mpv' = mpv
                /\ written' = <<>>
        /\ last' = [op |-> "bindfifo", name |-> fifopath, opened |-> opened]
        /\ emitted' = <<>>
        /\ raised' = "none"
        /\ ret' = None
        /\ UNCHANGED <<properties, socket, connected, thr, relay, exported,
                       applying, notified>>

\* (name, val) with any other name: setproperty(name, val); an exception
\* ends the loop
RecvEvent(name, val) ==
    LET o == setproperty(properties, name, val)
    IN  /\ relay = "running"
        /\ applying[RELAY].pc = "idle"
        /\ properties' = o.props
        /\ emitted' = o.sigs
        /\ notified' = NotifiedAfter(o.sigs, notified)
        /\ raised' = o.exc
        /\ relay' = IF o.exc = "none" THEN "running" ELSE "exited"
        /\ last' = [op |-> "setproperty", name |-> name, val |-> val,
                    by |-> "relay"]
        /\ written' = <<>>
        /\ ret' = None
        /\ UNCHANGED <<socket, fifo, mpv, connected, thr, exported, applying>>

\* conn.recv() raises: the channel is closed
ChannelClosed ==
    /\ relay = "running"
    /\ applying[RELAY].pc = "idle"
    /\ relay' = "exited"
    /\ last' = [op |-> "closed"]
    /\ emitted' = <<>>
    /\ written' = <<>>
    /\ raised' = "none"
    /\ ret' = None
    /\ UNCHANGED <<properties, socket, fifo, mpv, connected, thr, exported,
                   applying, notified>>

\* main: mprisctl.release() after run() returns
release ==
    /\ relay = "exited"
    /\ exported
    /\ exported' = FALSE
    /\ last' = [op |-> "release"]
    /\ emitted' = <<>>
    /\ written' = <<>>
    /\ raised' = "none"
    /\ ret' = None
    /\ UNCHANGED <<properties, socket, fifo, mpv, connected, thr, relay,
                   applying, notified>>

\* acquire() on a controller that has acquired before: self.bus is set, so
\* _acquire_bus requests the name again on the connection it holds, and
\* _add_interfaces constructs another Mpris2MediaPlayer on the same path.
\* refused tells whether the connection refuses, with KeyError, to register
\* a path whose handler is still registered; else self.mpris is the new
\* object, with the table and the transport fields of __init__.  No bindmpv
\* thread of the object in place is running.
acquire(refused) ==
    /\ \A t \in Threads : thr[t].pc \in {"idle", "done", "dead"}
    /\ last' = [op |-> "acquire", request_name |-> TRUE]
    /\ emitted' = <<>>
    /\ written' = <<>>
    /\ ret' = None
    /\ IF exported /\ refused
       THEN /\ raised' = "KeyError"
            /\ UNCHANGED <<properties, socket, fifo, mpv, exported>>
       ELSE /\ raised' = "none"
            /\ properties' = InitProperties
            /\ socket' = None
            /\ fifo' = None
            /\ mpv' = FALSE
            /\ exported' = TRUE
    /\ UNCHANGED <<connected, thr, relay, applying, notified>>

---------------------------------------------------------------------------
(* Mpris2MediaPlayer.bindmpv, run by the thread t *)

\* a step of the thread t that calls no D-Bus method
ThreadStep(t, op) ==
    /\ last' = op
    /\ ret' = None
    /\ UNCHANGED <<relay, exported>>

\* self.mpv = True; self.socket = socket.socket(socket.AF_UNIX); tries = 0
BindStart(t) ==
    /\ thr[t].pc = "start"
    /\ mpv' = TRUE
    /\ socket' = Sock(t)
    /\ thr' = [thr EXCEPT ![t].pc = "connect", ![t].tries = 0]
    /\ emitted' = <<>>
    /\ written' = <<>>
    /\ raised' = "none"
    /\ ThreadStep(t, [op |-> "bindmpv", step |-> "start", t |-> t])
    /\ connected' = connected \ {Sock(t)}
    /\ UNCHANGED <<properties, fifo, applying, notified>>

\* Connect without the else clause of the while loop: the failure that
\* brings tries to 10 leaves the thread in the loop
Connect_NoElse(t, ok) ==
    /\ thr[t].pc = "connect"
    /\ thr[t].tries < MAX_TRIES
    /\ emitted' = <<>>
    /\ written' = <<>>
    /\ ThreadStep(t, [op |-> "bindmpv", step |-> "connect", t |-> t,
                      ok |-> ok])
    /\ UNCHANGED <<properties, fifo, mpv, applying, notified>>
    /\ IF socket = None
       THEN \* None has no connect: AttributeError ends the thread
            /\ thr' = [thr EXCEPT ![t].pc = "dead"]
            /\ raised' = "AttributeError"
            /\ UNCHANGED <<socket, connected>>
       ELSE IF ok /\ socket \notin connected
       THEN /\ connected' = connected \cup {socket}
            /\ thr' = [thr EXCEPT ![t].pc = "observe"]
            /\ raised' = "none"
            /\ UNCHANGED socket
       ELSE /\ raised' = "none"
            /\ UNCHANGED connected
            /\ IF thr[t].tries + 1 < MAX_TRIES
               THEN /\ thr' = [thr EXCEPT ![t].tries = @ + 1]
                    /\ UNCHANGED socket
               ELSE /\ thr' = [thr EXCEPT ![t].tries = @ + 1]
                    /\ UNCHANGED socket

\* one pass of the while loop: sleep, self.socket.connect(sockpath); ok tells
\* whether the backend accepts.  The failure that brings tries to 10 ends the
\* loop through its else clause: self.socket = None
Connect(t, ok) ==
    /\ thr[t].pc = "connect"
    /\ thr[t].tries < MAX_TRIES
    /\ emitted' = <<>>
    /\ written' = <<>>
    /\ ThreadStep(t, [op |-> "bindmpv", step |-> "connect", t |-> t,
                      ok |-> ok])
    /\ UNCHANGED <<properties, fifo, mpv, applying, notified>>
    /\ IF socket = None
       THEN \* None has no connect: AttributeError ends the thread
            /\ thr' = [thr EXCEPT ![t].pc = "dead"]
            /\ raised' = "AttributeError"
            /\ UNCHANGED <<socket, connected>>
       ELSE IF ok /\ socket \notin connected
       THEN /\ connected' = connected \cup {socket}
            /\ thr' = [thr EXCEPT ![t].pc = "observe"]
            /\ raised' = "none"
            /\ UNCHANGED socket
       ELSE /\ raised' = "none"
            /\ UNCHANGED connected
            /\ IF thr[t].tries + 1 < MAX_TRIES
               THEN /\ thr' = [thr EXCEPT ![t].tries = @ + 1]
                    /\ UNCHANGED socket
               ELSE /\ thr' = [thr EXCEPT ![t].tries = @ + 1,
                                          ![t].pc = "observe"]
                    /\ socket' = None

\* the except clause of bindmpv: self.socket = None; self.mpv = False
SocketError(t) ==
    /\ socket' = None
    /\ mpv' = FALSE
    /\ thr' = [thr EXCEPT ![t].pc = "done"]
    /\ raised' = "none"

\* observe_full = False; _sendcommand(["observe_property", 1, "time-pos"]);
\* self.socket.makefile()
Observe(t) ==
    LET s == sendcommand(<<PyStr("observe_property"), PyInt(1),
                           PyStr("time-pos")>>)
    IN  /\ thr[t].pc = "observe"
        /\ emitted' = <<>>
        /\ written' = s.w
        /\ ThreadStep(t, [op |-> "bindmpv", step |-> "observe", t |-> t])
        /\ UNCHANGED <<properties, fifo, connected, applying, notified>>
        /\ IF s.exc # "none"
           THEN SocketError(t)
           ELSE IF socket = None
           THEN \* None has no makefile: AttributeError ends the thread
                /\ thr' = [thr EXCEPT ![t].pc = "dead"]
                /\ raised' = "AttributeError"
                /\ UNCHANGED <<socket, mpv>>
           ELSE /\ thr' = [thr EXCEPT ![t].pc = "read",
                                      ![t].observe_full = FALSE,
                                      ![t].file = socket]
                /\ raised' = "none"
                /\ UNCHANGED <<socket, mpv>>

\* the thread t can read a line: its file is on a connected socket
CanRead(t) ==
    /\ thr[t].pc = "read"
    /\ applying[t].pc = "idle"
    /\ thr[t].file \in connected

\* a line with a property-change event: the two observe_property commands
\* when it is the first one, then setproperty(resp['name'], resp['data'])
ReadEvent(t, name, data) ==
    LET first == ~thr[t].observe_full
        s == IF first
             THEN SendBoth(socket, fifo, mpv, connected,
                           <<PyStr("observe_property"), PyInt(2),
                             PyStr("volume")>>,
                           <<PyStr("observe_property"), PyInt(3),
                             PyStr("pause")>>)
             ELSE NoSend
        o == setproperty(properties, name, data)
    IN  /\ CanRead(t)
        /\ written' = s.w
        /\ ThreadStep(t, IF s.exc # "none"
                         THEN [op |-> "bindmpv", step |-> "read", t |-> t,
                               line |-> "property-change"]
                         ELSE [op |-> "setproperty", name |-> name,
                               val |-> data, by |-> "socket", t |-> t])
        /\ UNCHANGED <<fifo, connected, applying>>
        /\ IF s.exc # "none"
           THEN /\ SocketError(t)
                /\ emitted' = <<>>
                /\ UNCHANGED <<properties, notified>>
           ELSE /\ properties' = o.props
                /\ emitted' = o.sigs
                /\ notified' = NotifiedAfter(o.sigs, notified)
                /\ raised' = o.exc
                /\ thr' = [thr EXCEPT
                              ![t].observe_full = TRUE,
                              ![t].pc = IF o.exc = "none" THEN "read"
                                        ELSE "dead"]
                /\ UNCHANGED <<socket, mpv>>

\* a line with a JSON object that is no property-change event
ReadOther(t, line) ==
    /\ CanRead(t)
    /\ emitted' = <<>>
    /\ written' = <<>>
    /\ raised' = "none"
    /\ ThreadStep(t, [op |-> "bindmpv", step |-> "read", t |-> t,
                      line |-> line])
    /\ UNCHANGED <<properties, socket, fifo, mpv, connected, thr, applying,
                   notified>>

\* a line that is no JSON (json.loads raises ValueError) or no JSON object
\* (resp.get raises AttributeError): the exception is not socket.error and
\* ends the thread
ReadBad(t, line) ==
    /\ CanRead(t)
    /\ thr' = [thr EXCEPT ![t].pc = "dead"]
    /\ emitted' = <<>>
    /\ written' = <<>>
    /\ raised' = IF line = "not-json" THEN "ValueError" ELSE "AttributeError"
    /\ ThreadStep(t, [op |-> "bindmpv", step |-> "read", t |-> t,
                      line |-> line])
    /\ UNCHANGED <<properties, socket, fifo, mpv, connected, applying,
                   notified>>

\* reading raises socket.error
ReadError(t) ==
    /\ thr[t].pc = "read"
    /\ applying[t].pc = "idle"
    /\ SocketError(t)
    /\ connected' = connected \ {thr[t].file}
    /\ emitted' = <<>>
    /\ written' = <<>>
    /\ ThreadStep(t, [op |-> "bindmpv", step |-> "read", t |-> t,
                      line |-> "socket.error"])
    /\ UNCHANGED <<properties, fifo, applying, notified>>

\* the backend closes the connection: the for loop ends
ReadEOF(t) ==
    /\ CanRead(t)
    /\ thr' = [thr EXCEPT ![t].pc = "done"]
    /\ connected' = connected \ {thr[t].file}
    /\ emitted' = <<>>
    /\ written' = <<>>
    /\ raised' = "none"
    /\ ThreadStep(t, [op |-> "bindmpv", step |-> "read", t |-> t,
                      line |-> "eof"])
    /\ UNCHANGED <<properties, socket, fifo, mpv, applying, notified>>

---------------------------------------------------------------------------
(* setproperty in steps: the relay loop and a bindmpv thread run at once   *)
(* and no lock is held by setproperty, so that the steps of one call, the  *)
(* read of oldval, the assignment and the signal, interleave with the      *)
(* steps of the call of the other loop                                     *)

\* newval of the branches pause and stop
NewStatus(name, val) ==
    IF Truthy(val)
    THEN IF name = "pause" THEN PyStr("Paused") ELSE PyStr("Stopped")
    ELSE PyStr("Playing")

\* the loop a enters setproperty(name, val):
\* oldval = self.properties[PLAYER_INTERFACE]['read_only']['PlaybackStatus']
BeginApply(a, name, val) ==
    applying' = [applying EXCEPT ![a] =
                    [pc |-> "compare", name |-> name, val |-> val,
                     oldval |-> PlayerRO(properties, "PlaybackStatus")]]

\* the relay receives (name, val), name pause or stop, and enters setproperty
RelayApply(name, val) ==
    /\ relay = "running"
    /\ applying[RELAY].pc = "idle"
    /\ name \in {"pause", "stop"}
    /\ BeginApply(RELAY, name, val)
    /\ last' = [op |-> "apply", step |-> "read", a |-> RELAY, name |-> name,
                val |-> val]
    /\ emitted' = <<>>
    /\ written' = <<>>
    /\ raised' = "none"
    /\ ret' = None
    /\ UNCHANGED <<properties, socket, fifo, mpv, connected, thr, relay,
                   exported, notified>>

\* the thread t reads a property-change line, name pause or stop: the two
\* observe_property commands when it is the first one, then it enters
\* setproperty
SocketApply(t, name, data) ==
    LET first == ~thr[t].observe_full
        s == IF first
             THEN SendBoth(socket, fifo, mpv, connected,
                           <<PyStr("observe_property"), PyInt(2),
                             PyStr("volume")>>,
                           <<PyStr("observe_property"), PyInt(3),
                             PyStr("pause")>>)
             ELSE NoSend
    IN  /\ CanRead(t)
        /\ name \in {"pause", "stop"}
        /\ written' = s.w
        /\ emitted' = <<>>
        /\ UNCHANGED <<properties, fifo, connected, notified>>
        /\ IF s.exc # "none"
           THEN /\ SocketError(t)
                /\ ThreadStep(t, [op |-> "bindmpv", step |-> "read", t |-> t,
                                  line |-> "property-change"])
                /\ UNCHANGED applying
           ELSE /\ BeginApply(t, name, data)
                /\ ThreadStep(t, [op |-> "apply", step |-> "read", a |-> t,
                                  name |-> name, val |-> data])
                /\ thr' = [thr EXCEPT ![t].observe_full = TRUE]
                /\ raised' = "none"
                /\ UNCHANGED <<socket, mpv>>

\* the loop a goes on in setproperty: newval is computed and compared with
\* oldval, and assigned when they differ
ApplyWrite(a) ==
    LET newval == NewStatus(applying[a].name, applying[a].val)
    IN  /\ applying[a].pc = "compare"
        /\ IF newval # applying[a].oldval
           THEN /\ properties' =
                       SetPlayerRO(properties, "PlaybackStatus", newval)
                /\ applying' = [applying EXCEPT ![a].pc = "notify"]
           ELSE /\ applying' = [applying EXCEPT ![a] = IdleApply]
                /\ UNCHANGED properties
        /\ last' = [op |-> "apply", step |-> "write", a |-> a]
        /\ emitted' = <<>>
        /\ written' = <<>>
        /\ raised' = "none"
        /\ ret' = None
        /\ UNCHANGED <<socket, fifo, mpv, connected, thr, relay, exported,
                       notified>>

\* the loop a ends setproperty: self.PropertiesChanged(...)
ApplyNotify(a) ==
    LET newval == NewStatus(applying[a].name, applying[a].val)
        invalidated == IF applying[a].name = "pause" THEN <<>>
                       ELSE <<"Metadata", "Position">>
    IN  /\ applying[a].pc = "notify"
        /\ emitted' = <<PropertiesChanged(PLAYER_INTERFACE,
                            "PlaybackStatus" :> newval, invalidated)>>
        /\ notified' = newval
        /\ applying' = [applying EXCEPT ![a] = IdleApply]
        /\ last' = [op |-> "apply", step |-> "notify", a |-> a]
        /\ written' = <<>>
        /\ raised' = "none"
        /\ ret' = None
        /\ UNCHANGED <<properties, socket, fifo, mpv, connected, thr, relay,
                       exported>>

---------------------------------------------------------------------------
(* The program *)

Next ==
    \/ Raise
    \/ Quit
    \/ OpenUri
    \/ Next_
    \/ Previous
    \/ Stop
    \/ Pause
    \/ PlayPause
    \/ Play
    \/ \E offset \in SeekOffsets : Seek(offset)
    \/ \E track_id \in TrackIds, position \in SetPositions :
           SetPosition(track_id, position)
    \/ \E i \in Interfaces : GetAll(i)
    \/ \E i \in Interfaces, p \in PropertyNames : Get(i, p)
    \/ \E i \in Interfaces, p \in PropertyNames, x \in NewValues : Set(i, p, x)
    \/ RecvSocket
    \/ \E b \in FifoBinds, opened \in BOOLEAN : bindfifo(b[1], b[2], opened)
    \/ \E e \in RelayEvents : RecvEvent(e[1], e[2])
    \/ ChannelClosed
    \/ release
    \/ \E t \in Binds : BindStart(t)
    \/ \E t \in Binds, ok \in BOOLEAN : Connect(t, ok)
    \/ \E t \in Binds : Observe(t)
    \/ \E t \in Binds, e \in SocketEvents : ReadEvent(t, e[1], e[2])
    \/ \E t \in Binds, line \in OtherLines : ReadOther(t, line)
    \/ \E t \in Binds, line \in BadLines : ReadBad(t, line)
    \/ \E t \in Binds : ReadError(t)
    \/ \E t \in Binds : ReadEOF(t)

Spec == Init /\ [][Next]_vars

---------------------------------------------------------------------------
(* The interface state store alone: the relay applies the player's events  *)
(* one after another and no transport is bound                             *)

NextStore ==
    \/ \E e \in RelayEvents : RecvEvent(e[1], e[2])
    \/ ChannelClosed
    \/ release

SpecStore == Init /\ [][NextStore]_vars

---------------------------------------------------------------------------
(* The backend bridge: every bind, every step of the socket threads and    *)
(* every D-Bus method, with the events that decide what the methods send   *)
(* (the playback status and the track) and the volume event that answers   *)
(* Set                                                                     *)

BridgeEvents ==
    {e \in RelayEvents : e[1] \in {"pause", "stop"}}
    \cup {<<"metadata", PyTuple(<<Chars(<<"a", "-">>), PyStr("t"), PyInt(3)>>)>>,
          <<"volume", PyInt(50)>>}

BridgeSocketEvents == {e \in SocketEvents : e[1] = "pause"}

NextBridge ==
    \/ Raise
    \/ Quit
    \/ OpenUri
    \/ Next_
    \/ Previous
    \/ Stop
    \/ Pause
    \/ PlayPause
    \/ Play
    \/ \E offset \in SeekOffsets : Seek(offset)
    \/ \E track_id \in TrackIds, position \in SetPositions :
           SetPosition(track_id, position)
    \/ \E i \in Interfaces : GetAll(i)
    \/ \E i \in Interfaces, p \in PropertyNames : Get(i, p)
    \/ \E i \in Interfaces, p \in PropertyNames, x \in NewValues : Set(i, p, x)
    \/ RecvSocket
    \/ \E b \in FifoBinds, opened \in BOOLEAN : bindfifo(b[1], b[2], opened)
    \/ \E e \in BridgeEvents : RecvEvent(e[1], e[2])
    \/ ChannelClosed
    \/ release
    \/ \E t \in Binds : BindStart(t)
    \/ \E t \in Binds, ok \in BOOLEAN : Connect(t, ok)
    \/ \E t \in Binds : Observe(t)
    \/ \E t \in Binds, e \in BridgeSocketEvents : ReadEvent(t, e[1], e[2])
    \/ \E t \in Binds, line \in OtherLines : ReadOther(t, line)
    \/ \E t \in Binds, line \in BadLines : ReadBad(t, line)
    \/ \E t \in Binds : ReadError(t)
    \/ \E t \in Binds : ReadEOF(t)

SpecBridge == Init /\ [][NextBridge]_vars

---------------------------------------------------------------------------
(* The property table behind org.freedesktop.DBus.Properties: every event  *)
(* of the relay, and Get, GetAll and Set served in between                 *)

NextProperties ==
    \/ \E e \in RelayEvents : RecvEvent(e[1], e[2])
    \/ \E i \in Interfaces : GetAll(i)
    \/ \E i \in Interfaces, p \in PropertyNames : Get(i, p)
    \/ \E i \in Interfaces, p \in PropertyNames, x \in NewValues : Set(i, p, x)
    \/ ChannelClosed

SpecProperties == Init /\ [][NextProperties]_vars

---------------------------------------------------------------------------
(* The controller: acquire and release called by the owner of the          *)
(* controller around the relay loop, with the events and the pipe binds    *)
(* that change what acquire finds                                          *)

NextController ==
    \/ \E refused \in BOOLEAN : acquire(refused)
    \/ release
    \/ ChannelClosed
    \/ \E e \in BridgeEvents : RecvEvent(e[1], e[2])
    \/ \E b \in FifoBinds, opened \in BOOLEAN : bindfifo(b[1], b[2], opened)
    \/ \E i \in Interfaces : GetAll(i)

SpecController == Init /\ [][NextController]_vars

---------------------------------------------------------------------------
(* The two writers of PlaybackStatus: the relay loop and a connected       *)
(* bindmpv thread, each applying pause and stop events step by step        *)

StatusEvents == {"pause", "stop"} \X PauseVals

NextRace ==
    \/ RecvSocket
    \/ \E t \in Binds : BindStart(t)
    \/ \E t \in Binds, ok \in BOOLEAN : Connect(t, ok)
    \/ \E t \in Binds : Observe(t)
    \/ \E e \in StatusEvents : RelayApply(e[1], e[2])
    \/ \E t \in Binds, e \in BridgeSocketEvents : SocketApply(t, e[1], e[2])
    \/ \E a \in Appliers : ApplyWrite(a)
    \/ \E a \in Appliers : ApplyNotify(a)
    \/ \E t \in Binds : ReadEOF(t)
    \/ ChannelClosed

SpecRace == Init /\ [][NextRace]_vars

---------------------------------------------------------------------------
(* The socket transport: the socket binds of the relay and every step of   *)
(* the bindmpv threads, with the pipe binds that may come in between.  The *)
(* thread that runs bindmpv is scheduled again and again, and sleep and    *)
(* connect return, so a thread in its while loop goes on to the next pass. *)

NextSocket ==
    \/ RecvSocket
    \/ \E b \in FifoBinds, opened \in BOOLEAN : bindfifo(b[1], b[2], opened)
    \/ ChannelClosed
    \/ \E t \in Binds : BindStart(t)
    \/ \E t \in Binds, ok \in BOOLEAN : Connect(t, ok)
    \/ \E t \in Binds : Observe(t)
    \/ \E t \in Binds, e \in SocketEvents : ReadEvent(t, e[1], e[2])
    \/ \E t \in Binds, line \in OtherLines : ReadOther(t, line)
    \/ \E t \in Binds, line \in BadLines : ReadBad(t, line)
    \/ \E t \in Binds : ReadError(t)
    \/ \E t \in Binds : ReadEOF(t)

SpecSocket == Init /\ [][NextSocket]_vars

SpecSocketFair ==
    SpecSocket /\ \A t \in Binds : WF_vars(\E ok \in BOOLEAN : Connect(t, ok))

---------------------------------------------------------------------------
(* Overlapping socket binds: the relay starts a thread for every ('socket', *)
(* val) it receives and waits for none of them, so a second bindmpv runs   *)
(* while the first one is connected; both assign self.socket               *)

OverlapEvents == {<<"pause", PyBool(TRUE)>>}

NextOverlap ==
    \/ StartBind(Threads)
    \/ \E t \in Threads : BindStart(t)
    \/ \E t \in Threads : Connect(t, TRUE)
    \/ \E t \in Threads : Observe(t)
    \/ \E t \in Threads, e \in OverlapEvents : ReadEvent(t, e[1], e[2])
    \/ \E t \in Threads : ReadError(t)
    \/ \E t \in Threads : ReadEOF(t)

SpecOverlap == Init /\ [][NextOverlap]_vars

---------------------------------------------------------------------------
(* Properties *)

Range(f) == {f[x] : x \in DOMAIN f}

Status == PlayerRO(properties, "PlaybackStatus")

\* the latest step applied the event name through setproperty
Applied(name) == last.op = "setproperty" /\ last.name = name

\* the PropertiesChanged signals among the signals of the latest step
Notifications == {n \in Range(emitted) : n.sig = "PropertiesChanged"}

\* C1: a pause or stop event leaves PlaybackStatus one of Playing, Paused,
\* Stopped and emits the PropertiesChanged of PlaybackStatus exactly when the
\* status computed from the event differs from the one stored before it; the
\* invalidated list is empty for pause and [Metadata, Position] for stop.
C1_StatusNotification ==
    [][(last'.op = "setproperty" /\ last'.name \in {"pause", "stop"}) =>
        LET old == PlayerRO(properties, "PlaybackStatus")
            computed ==
                IF Truthy(last'.val)
                THEN IF last'.name = "pause" THEN PyStr("Paused")
                     ELSE PyStr("Stopped")
                ELSE PyStr("Playing")
            invalidated ==
                IF last'.name = "pause" THEN <<>>
                ELSE <<"Metadata", "Position">>
        IN  /\ PlayerRO(properties', "PlaybackStatus") \in
                   {PyStr("Playing"), PyStr("Paused"), PyStr("Stopped")}
            /\ PlayerRO(properties', "PlaybackStatus") = computed
            /\ computed # old =>
                   emitted' = <<[sig |-> "PropertiesChanged",
                                 iface |-> PLAYER_INTERFACE,
                                 changed |-> ("PlaybackStatus" :> computed),
                                 invalidated |-> invalidated]>>
            /\ computed = old => emitted' = <<>>]_vars

\* a stop event has changed the status and its notification is out
C1_Witness ==
    /\ Applied("stop")
    /\ Status = PyStr("Stopped")
    /\ Len(emitted) = 1
    /\ emitted[1].invalidated = <<"Metadata", "Position">>

\* the value v * 10^6 of a number, as a fraction
TimesMicro(val) ==
    IF IsInt(val) THEN PyFloat(val.int * MICRO, 1)
    ELSE LET g == GCD(MICRO, val.d)
         IN  PyFloat(val.n * (MICRO \div g), val.d \div g)

\* the latest step applied time-pos(v) with v a nonzero number
AppliedTimePos ==
    /\ Applied("time-pos")
    /\ IsInt(last.val) \/ IsFloat(last.val)
    /\ Truthy(last.val)

\* C2 as claimed: time-pos(v) with v nonzero stores Position = v * 10^6.
C2_Claimed ==
    AppliedTimePos =>
        PyFloat(PlayerRO(properties, "Position").int, 1) = TimesMicro(last.val)

\* C2: time-pos(v) with v nonzero stores the whole microseconds of v * 10^6,
\* the fraction dropped, and emits Seeked, with the stored Position, exactly
\* when the stored Position moved by 4,000,000 microseconds or more.
C2_PositionSeeked ==
    [][(last'.op = "setproperty" /\ last'.name = "time-pos"
        /\ (IsInt(last'.val) \/ IsFloat(last'.val)) /\ Truthy(last'.val)) =>
        LET old == PlayerRO(properties, "Position").int
            new == PlayerRO(properties', "Position").int
            x == TimesMicro(last'.val)
        IN  /\ IF x.n >= 0
               THEN new * x.d <= x.n /\ x.n < (new + 1) * x.d
               ELSE (new - 1) * x.d < x.n /\ x.n <= new * x.d
            /\ Abs(new - old) >= 4000000 =>
                   emitted' = <<[sig |-> "Seeked", position |-> PyInt(new)]>>
            /\ Abs(new - old) < 4000000 => emitted' = <<>>]_vars

\* time-pos(3.9999995) is stored as 3999999 microseconds
C2_Witness ==
    /\ AppliedTimePos
    /\ last.val = PyFloat(7999999, 2000000)
    /\ PlayerRO(properties, "Position") = PyInt(3999999)

\* C3 as claimed: no PropertiesChanged has Position among the keys of its
\* changed map or in its invalidated list.
C3_Claimed ==
    \A n \in Notifications :
        /\ "Position" \notin DOMAIN n.changed
        /\ "Position" \notin Range(n.invalidated)

\* C3: no PropertiesChanged has Position among the keys of its changed map,
\* a time-pos event emits no PropertiesChanged, and Position is in the
\* invalidated list of the notification of a stop event and of no other.
C3_PositionNotNotified ==
    /\ \A n \in Notifications :
        /\ "Position" \notin DOMAIN n.changed
        /\ "Position" \in Range(n.invalidated) <=> Applied("stop")
    /\ Applied("time-pos") => Notifications = {}

\* a time-pos event has moved Position and only Seeked is out
C3_Witness ==
    /\ Applied("time-pos")
    /\ PlayerRO(properties, "Position") = PyInt(9000000)
    /\ Len(emitted) = 1
    /\ emitted[1].sig = "Seeked"

\* no transport is bound
Unbound == socket = None /\ fifo = None

\* commands go to a socket: the handle is set and its connection is up
SocketActive == socket # None /\ socket \in connected

\* commands go to a pipe: no socket handle is set and a pipe is open
PipeActive == socket = None /\ fifo # None

ControlMethods ==
    {"Next", "Previous", "Stop", "Pause", "Play", "PlayPause", "Seek", "Set"}

\* the latest step is the connect attempt of t that used up the tries
BindFailed(t) ==
    /\ last = [op |-> "bindmpv", step |-> "connect", t |-> t, ok |-> FALSE]
    /\ thr[t].tries = MAX_TRIES

\* C4 as claimed: when the last connect attempt of a socket bind has failed
\* the transport is Unbound, and while it stays so the control methods write
\* nothing and raise nothing.
C4_Claimed ==
    /\ \A t \in Binds : BindFailed(t) => Unbound
    /\ \A t \in Binds :
        (thr[t].tries = MAX_TRIES /\ Unbound
         /\ last.op \in ControlMethods) =>
            written = <<>> /\ raised \in {"none", "UnknownInterface"}

\* the latest step read the line from the socket of t
ReadLine(t, line) ==
    last = [op |-> "bindmpv", step |-> "read", t |-> t, line |-> line]

\* C5 as claimed: a read failure, an IO error or a line that is no JSON
\* object, resets the transport (no socket handle, no dialect flag) and ends
\* the read loop.
C5_Claimed ==
    \A t \in Binds, line \in BadLines \cup {"socket.error"} :
        ReadLine(t, line) =>
            /\ socket = None
            /\ mpv = FALSE
            /\ thr[t].pc = "done"

\* the write of the command c to a socket, to a pipe
SocketWrite(c) ==
    [to |-> "socket", h |-> socket,
     data |-> [format |-> "json", object |-> [command |-> c], end |-> "\n"]]
PipeWrite(tokens) ==
    [to |-> "fifo", h |-> fifo,
     data |-> [format |-> "text", tokens |-> tokens, sep |-> " ",
               end |-> "\n"]]

CmdPause == <<PyStr("pause")>>
CmdSetPause(b) == <<PyStr("set_property"), PyStr("pause"), PyBool(b)>>
CmdCyclePause == <<PyStr("cycle"), PyStr("pause")>>

\* C6 as claimed: Pause, Play and PlayPause choose their command by the kind
\* of the transport: on a socket set_property pause true, set_property pause
\* false and cycle pause; on a pipe of either flavor pause, sent by Pause
\* unless Paused, by Play unless Playing, and by PlayPause always.
C6_Claimed ==
    /\ (last.op = "Pause" /\ SocketActive) =>
           written = <<SocketWrite(CmdSetPause(TRUE))>>
    /\ (last.op = "Play" /\ SocketActive) =>
           written = <<SocketWrite(CmdSetPause(FALSE))>>
    /\ (last.op = "PlayPause" /\ SocketActive) =>
           written = <<SocketWrite(CmdCyclePause)>>
    /\ (last.op = "Pause" /\ PipeActive) =>
           written = IF Status # PyStr("Paused")
                     THEN <<PipeWrite(CmdPause)>> ELSE <<>>
    /\ (last.op = "Play" /\ PipeActive) =>
           written = IF Status # PyStr("Playing")
                     THEN <<PipeWrite(CmdPause)>> ELSE <<>>
    /\ (last.op = "PlayPause" /\ PipeActive) =>
           written = <<PipeWrite(CmdPause)>>

\* the one write of the command c, with the tokens it has on a pipe, to the
\* transport in use: the socket when its handle is set, else the pipe
Wrote(c, tokens) ==
    IF socket # None THEN written = <<SocketWrite(c)>>
    ELSE IF fifo # None THEN written = <<PipeWrite(tokens)>>
    ELSE written = <<>>

\* C6: Pause, Play and PlayPause choose their command by the dialect flag:
\* with the flag set set_property pause true (yes on a pipe), set_property
\* pause false (no on a pipe) and cycle pause; with the flag clear pause, sent
\* by Pause unless Paused, by Play unless Playing, and by PlayPause always.
\* The command goes to the socket when a socket handle is set, else to the
\* pipe.
C6_PauseByDialect ==
    /\ (last.op = "Pause" /\ raised = "none") =>
        IF mpv
        THEN Wrote(CmdSetPause(TRUE),
                   <<PyStr("set_property"), PyStr("pause"), PyStr("yes")>>)
        ELSE IF Status # PyStr("Paused") THEN Wrote(CmdPause, CmdPause)
        ELSE written = <<>>
    /\ (last.op = "Play" /\ raised = "none") =>
        IF mpv
        THEN Wrote(CmdSetPause(FALSE),
                   <<PyStr("set_property"), PyStr("pause"), PyStr("no")>>)
        ELSE IF Status # PyStr("Playing") THEN Wrote(CmdPause, CmdPause)
        ELSE written = <<>>
    /\ (last.op = "PlayPause" /\ raised = "none") =>
        IF mpv THEN Wrote(CmdCyclePause, CmdCyclePause)
        ELSE Wrote(CmdPause, CmdPause)
    /\ (last.op \in {"Pause", "Play", "PlayPause"} /\ raised # "none") =>
        /\ raised = "socket.error"
        /\ socket # None /\ socket \notin connected
        /\ written = <<>>

\* Pause has written set_property pause yes to a pipe opened for mpv
C6_Witness ==
    /\ last.op = "Pause"
    /\ PipeActive
    /\ fifo = File("mpv-fifo")
    /\ written = <<PipeWrite(<<PyStr("set_property"), PyStr("pause"),
                              PyStr("yes")>>)>>

\* C7 as claimed: with a transport bound, SetPosition writes one seek command
\* and returns when the track id is that of the stored Metadata, and writes
\* nothing when it is not.
C7_Claimed ==
    (last.op = "SetPosition" /\ (SocketActive \/ PipeActive)) =>
        IF last.track_id = PlayerRO(properties, "Metadata").dict["mpris:trackid"]
        THEN /\ raised = "none"
             /\ Len(written) = 1
             /\ written[1].to = "socket" =>
                    written[1].data.object.command[1] = PyStr("seek")
             /\ written[1].to = "fifo" =>
                    written[1].data.tokens[1] = PyStr("seek")
        ELSE written = <<>> /\ raised = "none"

DBusMethods ==
    {"Raise", "Quit", "Next", "Previous", "Pause", "Play", "PlayPause",
     "Stop", "Seek", "SetPosition", "OpenUri", "Get", "GetAll", "Set"}

\* C8: no D-Bus method changes a value of the property table.
C8_MethodsKeepTable ==
    [][last'.op \in DBusMethods => properties' = properties]_vars

\* Set has sent the volume 50 and the stored Volume is still 1.0
C8_Witness ==
    /\ last.op = "Set"
    /\ last.interface_name = PLAYER_INTERFACE
    /\ last.property_name = "Volume"
    /\ last.new_value = PyFloat(1, 2)
    /\ written # <<>>
    /\ PlayerRW(properties, "Volume") = PyFloat(1, 1)

CmdSetVolume(x) ==
    <<PyStr("set_property"), PyStr("volume"), PyFloat(100 * x.n, x.d)>>
CmdGetVolume == <<PyStr("get_property"), PyStr("volume")>>

\* C9 as claimed: Set of Volume on the Player interface sends set_property
\* volume 100 * x, followed by get_property volume when the transport in use
\* is a pipe and by nothing when it is a socket; Set of any other property of
\* a known interface sends nothing.
C9_Claimed ==
    last.op = "Set" =>
        IF last.interface_name = PLAYER_INTERFACE
           /\ last.property_name = "Volume"
        THEN /\ SocketActive =>
                    written = <<SocketWrite(CmdSetVolume(last.new_value))>>
             /\ PipeActive =>
                    written = <<PipeWrite(CmdSetVolume(last.new_value)),
                                PipeWrite(CmdGetVolume)>>
        ELSE written = <<>>

\* C10: Get, GetAll and Set fail with UnknownInterface exactly when the
\* interface name is no key of the property table, and then they write no
\* command and leave the table as it is.
C10_UnknownInterface ==
    [][last'.op \in {"Get", "GetAll", "Set"} =>
        IF last'.interface_name \in {ROOT_INTERFACE, PLAYER_INTERFACE}
        THEN raised' # "UnknownInterface"
        ELSE /\ raised' = "UnknownInterface"
             /\ written' = <<>>
             /\ ret' = None
             /\ properties' = properties]_vars

\* Set on the Properties interface itself has failed
C10_Witness ==
    /\ last.op = "Set"
    /\ last.interface_name = PROPERTIES_INTERFACE
    /\ last.property_name = "Volume"
    /\ raised = "UnknownInterface"
    /\ written = <<>>
    /\ ~Unbound

\* C11 as claimed: once the relay loop has exited, on a closed channel or on
\* an exception, the interface object stays registered on the bus, so that
\* GetAll is still served: the closure leads to no release.
C11_Claimed ==
    relay = "exited" => exported

\* C12 as claimed: acquire() on a controller whose interface object is
\* registered returns and leaves the object as it is: the same property
\* table, the same transport handles and dialect flag, still registered.
C12_Claimed ==
    [][(last'.op = "acquire" /\ exported) =>
        /\ raised' = "none"
        /\ properties' = properties
        /\ socket' = socket
        /\ fifo' = fifo
        /\ mpv' = mpv
        /\ exported']_vars

\* the keys of the two partitions of an interface in a table
ReadOnlyKeys(props, i) == DOMAIN props[i].read_only
ReadWriteKeys(props, i) == DOMAIN props[i].read_write

\* the property an event is stored under
KeyOf(name) ==
    CASE name \in {"pause", "stop"} -> "PlaybackStatus"
      [] name = "volume" -> "Volume"
      [] name = "time-pos" -> "Position"
      [] name = "metadata" -> "Metadata"
      [] OTHER -> ""

\* C13: for each interface the keys of the read-only and of the read-write
\* partition are disjoint and are the keys of the initial table; a value of
\* the table changes only in the step that applies an event, and then only
\* under the key of that event; and GetAll of an interface returns the keys
\* of both partitions, each with the value stored under it.
C13_PartitionsAndGetAll ==
    /\ [](/\ DOMAIN properties = DOMAIN InitProperties
          /\ \A i \in DOMAIN InitProperties :
              /\ ReadOnlyKeys(properties, i) = ReadOnlyKeys(InitProperties, i)
              /\ ReadWriteKeys(properties, i) = ReadWriteKeys(InitProperties, i)
              /\ ReadOnlyKeys(properties, i) \cap ReadWriteKeys(properties, i)
                     = {}
          /\ (last.op = "GetAll" /\ last.interface_name \in DOMAIN properties)
                => LET i == last.interface_name
                   IN  /\ raised = "none"
                       /\ DOMAIN ret.dict = ReadOnlyKeys(properties, i)
                              \cup ReadWriteKeys(properties, i)
                       /\ \A k \in ReadOnlyKeys(properties, i) :
                              ret.dict[k] = properties[i].read_only[k]
                       /\ \A k \in ReadWriteKeys(properties, i) :
                              ret.dict[k] = properties[i].read_write[k])
    /\ [][\A i \in DOMAIN InitProperties :
            /\ \A k \in ReadOnlyKeys(InitProperties, i) :
                properties'[i].read_only[k] # properties[i].read_only[k] =>
                    /\ last'.op = "setproperty"
                    /\ i = PLAYER_INTERFACE
                    /\ k = KeyOf(last'.name)
            /\ \A k \in ReadWriteKeys(InitProperties, i) :
                properties'[i].read_write[k] # properties[i].read_write[k] =>
                    /\ last'.op = "setproperty"
                    /\ i = PLAYER_INTERFACE
                    /\ k = KeyOf(last'.name)]_vars

\* GetAll of the Player interface returns the status, the volume and the
\* position that pause, volume and time-pos events have stored
C13_Witness ==
    /\ last.op = "GetAll"
    /\ last.interface_name = PLAYER_INTERFACE
    /\ ret.dict["PlaybackStatus"] = PyStr("Paused")
    /\ ret.dict["Volume"] = PyFloat(1, 2)
    /\ ret.dict["Position"] = PyInt(9000000)
    /\ ret.dict["Rate"] = PyFloat(1, 1)

\* the command of Next, Previous and Stop, and its tokens on a pipe
QuitCommand(op) ==
    CASE op = "Next" -> <<PyStr("quit")>>
      [] op = "Previous" -> <<PyStr("quit"), PyInt(42)>>
      [] op = "Stop" -> <<PyStr("quit"), PyInt(43)>>
QuitTokens(op) ==
    CASE op = "Next" -> <<PyStr("quit")>>
      [] op = "Previous" -> <<PyStr("quit"), PyStr("42")>>
      [] op = "Stop" -> <<PyStr("quit"), PyStr("43")>>

\* a pipe is open and no connection of a socket is up: the pipe is the one
\* transport the backend can be reached by
PipeOnly == fifo # None /\ ~SocketActive

\* C14 as claimed: Next, Previous and Stop write quit, quit 42 and quit 43,
\* whatever the status and the dialect flag, as one JSON line to the socket
\* whose connection is up, else as one line of tokens to the pipe that is
\* open, and write nothing when no transport is bound.
C14_Claimed ==
    last.op \in {"Next", "Previous", "Stop"} =>
        /\ SocketActive => written = <<SocketWrite(QuitCommand(last.op))>>
        /\ PipeOnly => written = <<PipeWrite(QuitTokens(last.op))>>
        /\ Unbound => written = <<>>

\* C15 as claimed: the socket handle and the pipe handle are never both set.
C15_Claimed ==
    ~(socket # None /\ fifo # None)

\* an event of a known name whose value has not the shape of the name: no
\* (trackid, title, length) for metadata, no number for volume and time-pos
Malformed(name, val) ==
    \/ name = "metadata" /\ ~IsNone(val) /\ ~IsTrackTriple(val)
    \/ /\ name \in {"volume", "time-pos"}
       /\ ~IsNone(val)
       /\ ~(IsInt(val) \/ IsFloat(val))

\* C16 as claimed: a malformed event received by the relay changes no
\* property, emits no signal and leaves the relay loop running; the loop
\* ends only when the channel is closed.
C16_Claimed ==
    [][/\ (last'.op = "setproperty" /\ last'.by = "relay"
           /\ Malformed(last'.name, last'.val)) =>
            /\ properties' = properties
            /\ emitted' = <<>>
            /\ relay' = "running"
       /\ (relay = "running" /\ relay' = "exited") => last'.op = "closed"]_vars

\* the places of the PropertiesChanged of PlaybackStatus in the signals sigs
StatusNotifications(sigs) ==
    {x \in DOMAIN sigs : /\ sigs[x].sig = "PropertiesChanged"
                         /\ "PlaybackStatus" \in DOMAIN sigs[x].changed}

\* C17 as claimed: with the relay loop and a socket read loop applying
\* events at once, no PropertiesChanged of PlaybackStatus carries the status
\* that the one emitted before it carried, and when no loop is inside of
\* setproperty the stored PlaybackStatus is the status of the latest one.
C17_Claimed ==
    /\ [][\A x \in StatusNotifications(emitted') :
            emitted'[x].changed["PlaybackStatus"] # notified]_vars
    /\ []((notified # None /\ \A a \in Appliers : applying[a].pc = "idle")
            => Status = notified)

CmdObserve(id, name) == <<PyStr("observe_property"), PyInt(id), PyStr(name)>>

\* the latest step is a step of bindmpv other than setproperty
BindStep(l, steps) == l.op = "bindmpv" /\ l.step \in steps

\* C18 as claimed: a bindmpv thread writes nothing before it has connected;
\* it comes to read lines only by the step that writes observe_property 1
\* time-pos to the socket; the step that applies a property-change event
\* read from the socket writes observe_property 2 volume and then
\* observe_property 3 pause to the socket when it is the first such event of
\* the bind, and nothing when it is not; every property-change event that is
\* read is applied so; and a step that reads any other line writes nothing,
\* emits nothing and leaves the property table alone.
C18_Claimed ==
    [][/\ BindStep(last', {"start", "connect"}) => written' = <<>>
       /\ \A t \in Threads :
            (thr[t].pc # "read" /\ thr'[t].pc = "read") =>
                /\ last' = [op |-> "bindmpv", step |-> "observe", t |-> t]
                /\ written' = <<Write("socket", Sock(t),
                                      JsonLine(CmdObserve(1, "time-pos")))>>
                /\ ~thr'[t].observe_full
       /\ (last'.op = "setproperty" /\ last'.by = "socket") =>
            /\ thr[last'.t].pc = "read"
            /\ thr'[last'.t].observe_full
            /\ written' =
                 IF thr[last'.t].observe_full THEN <<>>
                 ELSE <<Write("socket", Sock(last'.t),
                              JsonLine(CmdObserve(2, "volume"))),
                        Write("socket", Sock(last'.t),
                              JsonLine(CmdObserve(3, "pause")))>>
       /\ (BindStep(last', {"read"}) /\ last'.line \in OtherLines) =>
            /\ written' = <<>>
            /\ emitted' = <<>>
            /\ properties' = properties
            /\ thr'[last'.t].observe_full = thr[last'.t].observe_full
       /\ ~(BindStep(last', {"read"}) /\ last'.line = "property-change")]_vars

\* C19: a thread in the connect phase has failed fewer than 10 times; a
\* connect attempt is made only in that phase, and the thread stays in it
\* only after an attempt that failed and left fewer than 10 failures, so at
\* most 10 attempts are made and none after one that succeeds; the phase is
\* entered only when a bind starts; and a thread in its connect phase comes
\* to leave it.
C19_ConnectTerminates ==
    /\ [](\A t \in Binds :
            /\ thr[t].tries <= MAX_TRIES
            /\ thr[t].pc = "connect" => thr[t].tries < MAX_TRIES)
    /\ [][/\ BindStep(last', {"connect"}) =>
                /\ thr[last'.t].pc = "connect"
                /\ thr[last'.t].tries < MAX_TRIES
                /\ connected' # connected => thr'[last'.t].pc = "observe"
                /\ thr'[last'.t].pc = "connect" =>
                       /\ thr'[last'.t].tries = thr[last'.t].tries + 1
                       /\ thr'[last'.t].tries < MAX_TRIES
          /\ \A t \in Binds :
                /\ thr'[t].tries > thr[t].tries => BindStep(last', {"connect"})
                /\ (thr[t].pc # "connect" /\ thr'[t].pc = "connect") =>
                       BindStep(last', {"start"})]_vars
    /\ \A t \in Binds : (thr[t].pc = "connect") ~> (thr[t].pc # "connect")

\* the tenth connect attempt has failed and the thread has left the loop
C19_Witness ==
    \E t \in Binds :
        /\ BindFailed(t)
        /\ thr[t].pc = "observe"
        /\ socket = None

\* C20 as claimed: while commands go to a pipe, the dialect flag is the flag
\* of the bind message that opened the pipe: set for mpv-fifo, clear for
\* mplayer-fifo.
C20_Claimed ==
    PipeActive => mpv = (fifo = File("mpv-fifo"))

====
